---- MODULE Spec2Model ----
(***************************************************************************)
(* NEP-141 fungible token core (src/src/standard/nep141.rs).               *)
(*                                                                         *)
(* The ledger is the contract's keyed storage: one u128 slot per account   *)
(* and one slot for the total supply; a slot that was never written reads  *)
(* as None.  Every operation of Nep141Controller is an operator over an    *)
(* execution context (storage, trace of storage writes and emitted events, *)
(* panic message) that follows the Rust body statement by statement; an    *)
(* action is one invocation of such an operation on the contract.          *)
(***************************************************************************)
EXTENDS Integers, Sequences, FiniteSets, TLC

\* u128::MAX, scaled down so that overflow is reachable.
U128Max == 2

Accounts == {"alice", "bob", "carol"}

\* Option<T>: None is the empty set, Some(v) is {v}.
None == {}
Some(v) == {v}
unwrap_or(opt, default) == IF opt = None THEN default ELSE CHOOSE v \in opt : TRUE

Amounts == 0..U128Max
Memos == {None, Some("memo")}

\* StorageKey::TotalSupply; StorageKey::Account(a) is the account id itself.
TotalSupplyKey == "TotalSupply"
StorageKeys == Accounts \cup {TotalSupplyKey}

NoPanic == "ok"

\* Gas, in units of 10^12 (Tgas).
GAS_FOR_RESOLVE_TRANSFER == 5
GAS_FOR_FT_TRANSFER_CALL == 25 + GAS_FOR_RESOLVE_TRANSFER

MORE_GAS_FAIL_MESSAGE == "More gas is required"

\* The gas allowances a transfer call is tried with: one below the minimum,
\* the minimum, one above.
GasAllowances == (GAS_FOR_FT_TRANSFER_CALL - 1)..(GAS_FOR_FT_TRANSFER_CALL + 1)

Msgs == {"msg"}

\* The accounts that take part in transfer calls; the others act through
\* plain transfers.
CallAccounts == {"alice", "bob"}

\* env::current_account_id(): the token contract itself.
CurrentAccount == "token"

VARIABLES
    storage,    \* [StorageKeys -> Option<u128>]: the committed contract storage
    last,       \* the last invocation: operation, arguments, storage before it,
                \* panic message, trace of writes and emitted events
    chains      \* the promise chains in flight: ft_on_transfer on the receiver,
                \* then ft_resolve_transfer on this contract

vars == <<storage, last, chains>>

----------------------------------------------------------------------------
\* u128 arithmetic

MutCheckedAddWrapping(a, b) == Some((a + b) % (U128Max + 1))

checked_add(a, b) == IF a + b <= U128Max THEN Some(a + b) ELSE None

MutCheckedSubSaturating(a, b) == Some(IF a >= b THEN a - b ELSE 0)

checked_sub(a, b) == IF a >= b THEN Some(a - b) ELSE None

\* json_types::U128 serialises as a decimal string ("amount":"500").
U128(n) == ToString(n)

\* serde_json::from_slice::<U128>: Ok(n) for the decimal string of a u128,
\* an error (None) for anything else.
from_slice_U128(value) ==
    IF \E n \in 0..U128Max : U128(n) = value
    THEN Some(CHOOSE n \in 0..U128Max : U128(n) = value)
    ELSE None

\* std::cmp::max in the place of std::cmp::min
MutMinIsMax(a, b) == IF a <= b THEN b ELSE a

min(a, b) == IF a <= b THEN a ELSE b

----------------------------------------------------------------------------
\* Execution context of one invocation

NewContext(st) == [storage |-> st, trace |-> <<>>, panic |-> NoPanic]

\* Slot::write
SlotWrite(ctx, key, value) ==
    [ctx EXCEPT !.storage[key] = Some(value),
                !.trace = Append(@, [kind |-> "write", key |-> key, value |-> value])]

\* env::panic_str
panic_str(ctx, msg) == [ctx EXCEPT !.panic = msg]

\* Event::emit
Emit(ctx, ev) == [ctx EXCEPT !.trace = Append(@, [kind |-> "emit", event |-> ev])]

\* `a; b`: the statement after a call runs only if the call returned.
Returned(ctx) == ctx.panic = NoPanic

----------------------------------------------------------------------------
\* Nep141Controller

balance_of(st, account_id) == unwrap_or(st[account_id], 0)

total_supply(st) == unwrap_or(st[TotalSupplyKey], 0)

\* withdraw_unchecked without the `amount != 0` guard
MutWithdrawNoZeroGuard(ctx, account_id, amount) ==
    LET balance == balance_of(ctx.storage, account_id)
        newBalance == checked_sub(balance, amount)
    IN  IF newBalance # None THEN
            LET c1 == SlotWrite(ctx, account_id, unwrap_or(newBalance, 0))
                newTotal == checked_sub(total_supply(c1.storage), amount)
            IN  IF newTotal # None
                THEN SlotWrite(c1, TotalSupplyKey, unwrap_or(newTotal, 0))
                ELSE panic_str(c1, "Total supply underflow")
        ELSE panic_str(ctx, "Balance underflow")

withdraw_unchecked(ctx, account_id, amount) ==
    IF amount # 0 THEN
        LET balance == balance_of(ctx.storage, account_id)
            newBalance == checked_sub(balance, amount)
        IN  IF newBalance # None THEN
                LET c1 == SlotWrite(ctx, account_id, unwrap_or(newBalance, 0))
                    total == total_supply(c1.storage)
                    newTotal == checked_sub(total, amount)
                IN  IF newTotal # None
                    THEN SlotWrite(c1, TotalSupplyKey, unwrap_or(newTotal, 0))
                    ELSE panic_str(c1, "Total supply underflow")
            ELSE panic_str(ctx, "Balance underflow")
    ELSE ctx

\* deposit_unchecked that forgets the total supply
MutDepositNoTotalSupply(ctx, account_id, amount) ==
    IF amount # 0 THEN
        LET newBalance == checked_add(balance_of(ctx.storage, account_id), amount)
        IN  IF newBalance # None
            THEN SlotWrite(ctx, account_id, unwrap_or(newBalance, 0))
            ELSE panic_str(ctx, "Balance overflow")
    ELSE ctx

\* deposit_unchecked with a wrapping addition on the total supply
MutDepositTotalWraps(ctx, account_id, amount) ==
    IF amount # 0 THEN
        LET newBalance == checked_add(balance_of(ctx.storage, account_id), amount)
        IN  IF newBalance # None THEN
                LET c1 == SlotWrite(ctx, account_id, unwrap_or(newBalance, 0))
                IN  SlotWrite(c1, TotalSupplyKey,
                              (total_supply(c1.storage) + amount) % (U128Max + 1))
            ELSE panic_str(ctx, "Balance overflow")
    ELSE ctx

deposit_unchecked(ctx, account_id, amount) ==
    IF amount # 0 THEN
        LET balance == balance_of(ctx.storage, account_id)
            newBalance == checked_add(balance, amount)
        IN  IF newBalance # None THEN
                LET c1 == SlotWrite(ctx, account_id, unwrap_or(newBalance, 0))
                    total == total_supply(c1.storage)
                    newTotal == checked_add(total, amount)
                IN  IF newTotal # None
                    THEN SlotWrite(c1, TotalSupplyKey, unwrap_or(newTotal, 0))
                    ELSE panic_str(c1, "Total supply overflow")
            ELSE panic_str(ctx, "Balance overflow")
    ELSE ctx

\* transfer_unchecked that debits the sender and never credits the receiver
MutTransferNoCredit(ctx, sender_account_id, receiver_account_id, amount) ==
    LET newSender == checked_sub(balance_of(ctx.storage, sender_account_id), amount)
    IN  IF newSender # None THEN
            IF checked_add(balance_of(ctx.storage, receiver_account_id), amount) # None
            THEN SlotWrite(ctx, sender_account_id, unwrap_or(newSender, 0))
            ELSE panic_str(ctx, "Receiver balance overflow")
        ELSE panic_str(ctx, "Sender balance underflow")

\* transfer_unchecked that writes the sender's slot before checking the receiver
MutTransferWriteBeforeCheck(ctx, sender_account_id, receiver_account_id, amount) ==
    LET newSender == checked_sub(balance_of(ctx.storage, sender_account_id), amount)
    IN  IF newSender # None THEN
            LET c1 == SlotWrite(ctx, sender_account_id, unwrap_or(newSender, 0))
                newReceiver == checked_add(balance_of(ctx.storage, receiver_account_id), amount)
            IN  IF newReceiver # None
                THEN SlotWrite(c1, receiver_account_id, unwrap_or(newReceiver, 0))
                ELSE panic_str(c1, "Receiver balance overflow")
        ELSE panic_str(ctx, "Sender balance underflow")

transfer_unchecked(ctx, sender_account_id, receiver_account_id, amount) ==
    LET sender_balance == balance_of(ctx.storage, sender_account_id)
        newSender == checked_sub(sender_balance, amount)
    IN  IF newSender # None THEN
            LET receiver_balance == balance_of(ctx.storage, receiver_account_id)
                newReceiver == checked_add(receiver_balance, amount)
            IN  IF newReceiver # None THEN
                    SlotWrite(SlotWrite(ctx, sender_account_id, unwrap_or(newSender, 0)),
                              receiver_account_id, unwrap_or(newReceiver, 0))
                ELSE panic_str(ctx, "Receiver balance overflow")
        ELSE panic_str(ctx, "Sender balance underflow")

FtTransfer(old_owner_id, new_owner_id, amount, memo) ==
    [event |-> "ft_transfer",
     data |-> <<[old_owner_id |-> old_owner_id, new_owner_id |-> new_owner_id,
                 amount |-> U128(amount), memo |-> memo]>>]

FtMint(owner_id, amount, memo) ==
    [event |-> "ft_mint",
     data |-> <<[owner_id |-> owner_id, amount |-> U128(amount), memo |-> memo]>>]

FtBurn(owner_id, amount, memo) ==
    [event |-> "ft_burn",
     data |-> <<[owner_id |-> owner_id, amount |-> U128(amount), memo |-> memo]>>]

transfer(ctx, sender_account_id, receiver_account_id, amount, memo) ==
    LET c1 == transfer_unchecked(ctx, sender_account_id, receiver_account_id, amount)
    IN  IF Returned(c1)
        THEN Emit(c1, FtTransfer(sender_account_id, receiver_account_id, amount, memo))
        ELSE c1

\* mint that emits the event before the deposit
MutMintEmitFirst(ctx, account_id, amount, memo) ==
    deposit_unchecked(Emit(ctx, FtMint(account_id, amount, memo)), account_id, amount)

mint(ctx, account_id, amount, memo) ==
    LET c1 == deposit_unchecked(ctx, account_id, amount)
    IN  IF Returned(c1) THEN Emit(c1, FtMint(account_id, amount, memo)) ELSE c1

burn(ctx, account_id, amount, memo) ==
    LET c1 == withdraw_unchecked(ctx, account_id, amount)
    IN  IF Returned(c1) THEN Emit(c1, FtBurn(account_id, amount, memo)) ELSE c1

\* ext_nep141_receiver::ext(receiver).with_static_gas(gas).ft_on_transfer(..)
ft_on_transfer(receiver_id, gas, sender_id, amount, msg) ==
    [account |-> receiver_id, method |-> "ft_on_transfer", gas |-> gas,
     args |-> [sender_id |-> sender_id, amount |-> amount, msg |-> msg]]

\* ext_nep141_resolver::ext(account).with_static_gas(gas).ft_resolve_transfer(..)
\* ft_resolve_transfer, sender and receiver exchanged.
MutResolveArgsSwapped(account_id, gas, sender_id, receiver_id, amount) ==
    [account |-> account_id, method |-> "ft_resolve_transfer", gas |-> gas,
     args |-> [sender_id |-> receiver_id, receiver_id |-> sender_id,
               amount |-> amount]]

ft_resolve_transfer(account_id, gas, sender_id, receiver_id, amount) ==
    [account |-> account_id, method |-> "ft_resolve_transfer", gas |-> gas,
     args |-> [sender_id |-> sender_id, receiver_id |-> receiver_id, amount |-> amount]]

\* Promise::then: the invocation creates the chain `first`, then `callback`.
PromiseThen(ctx, first, callback) ==
    [ctx EXCEPT !.trace = Append(@, [kind |-> "promise", call |-> first,
                                     then |-> callback])]

\* transfer_call that checks the gas allowance after the transfer
MutTransferCallLateGasCheck(ctx, sender_account_id, receiver_account_id, amount, memo, msg, gas_allowance) ==
    LET c1 == transfer(ctx, sender_account_id, receiver_account_id, amount, memo)
        receiver_gas == checked_sub(gas_allowance, GAS_FOR_FT_TRANSFER_CALL)
    IN  IF ~Returned(c1) THEN c1
        ELSE IF receiver_gas = None THEN panic_str(c1, MORE_GAS_FAIL_MESSAGE)
        ELSE PromiseThen(c1,
                ft_on_transfer(receiver_account_id, unwrap_or(receiver_gas, 0),
                               sender_account_id, U128(amount), msg),
                ft_resolve_transfer(CurrentAccount, GAS_FOR_RESOLVE_TRANSFER,
                                    sender_account_id, receiver_account_id,
                                    U128(amount)))

\* transfer_call that leaves the credit to the resolution: it only checks the
\* gas and starts the chain
MutTransferCallDeferredCredit(ctx, sender_account_id, receiver_account_id, amount, memo, msg, gas_allowance) ==
    IF ~(gas_allowance >= GAS_FOR_FT_TRANSFER_CALL)
    THEN panic_str(ctx, MORE_GAS_FAIL_MESSAGE)
    ELSE PromiseThen(ctx,
            ft_on_transfer(receiver_account_id,
                           gas_allowance - GAS_FOR_FT_TRANSFER_CALL,
                           sender_account_id, U128(amount), msg),
            ft_resolve_transfer(CurrentAccount, GAS_FOR_RESOLVE_TRANSFER,
                                sender_account_id, receiver_account_id,
                                U128(amount)))

\* transfer_call that takes the gas of the resolution off the allowance once
\* more
MutTransferCallGasCountedTwice(ctx, sender_account_id, receiver_account_id, amount, memo, msg, gas_allowance) ==
    IF ~(gas_allowance >= GAS_FOR_FT_TRANSFER_CALL)
    THEN panic_str(ctx, MORE_GAS_FAIL_MESSAGE)
    ELSE
        LET c1 == transfer(ctx, sender_account_id, receiver_account_id, amount, memo)
            receiver_gas == checked_sub(gas_allowance,
                                        GAS_FOR_FT_TRANSFER_CALL + GAS_FOR_RESOLVE_TRANSFER)
        IN  IF ~Returned(c1) THEN c1
            ELSE IF receiver_gas = None THEN panic_str(c1, "Prepaid gas overflow")
            ELSE PromiseThen(c1,
                    ft_on_transfer(receiver_account_id, unwrap_or(receiver_gas, 0),
                                   sender_account_id, U128(amount), msg),
                    ft_resolve_transfer(CurrentAccount, GAS_FOR_RESOLVE_TRANSFER,
                                        sender_account_id, receiver_account_id,
                                        U128(amount)))

transfer_call(ctx, sender_account_id, receiver_account_id, amount, memo, msg, gas_allowance) ==
    IF ~(gas_allowance >= GAS_FOR_FT_TRANSFER_CALL)
    THEN panic_str(ctx, MORE_GAS_FAIL_MESSAGE)
    ELSE
        LET c1 == transfer(ctx, sender_account_id, receiver_account_id, amount, memo)
            receiver_gas == checked_sub(gas_allowance, GAS_FOR_FT_TRANSFER_CALL)
        IN  IF ~Returned(c1) THEN c1
            ELSE IF receiver_gas = None THEN panic_str(c1, "Prepaid gas overflow")
            ELSE PromiseThen(c1,
                    ft_on_transfer(receiver_account_id, unwrap_or(receiver_gas, 0),
                                   sender_account_id, U128(amount), msg),
                    ft_resolve_transfer(CurrentAccount, GAS_FOR_RESOLVE_TRANSFER,
                                        sender_account_id, receiver_account_id,
                                        U128(amount)))

\* PromiseResult
NotReady == [tag |-> "NotReady"]
Failed == [tag |-> "Failed"]
Successful(value) == [tag |-> "Successful", value |-> value]

\* env::abort replaced by falling through
MutAbortContinues(ctx) == ctx

\* env::abort
abort(ctx) == [ctx EXCEPT !.panic = "abort"]

\* The value an invocation returns: Some(v), or None when it panicked.
Return(ctx, v) == [storage |-> ctx.storage, trace |-> ctx.trace, panic |-> ctx.panic,
                   value |-> IF Returned(ctx) THEN Some(v) ELSE None]

\* returns the refunded amount in the place of the amount kept
MutSubtractReturnsRefund(ctx, a, b) == Return(ctx, b)

\* `amount - refunded_amount` on u128: an overflow panics.
Subtract(ctx, a, b) ==
    IF a >= b THEN Return(ctx, a - b)
    ELSE Return(panic_str(ctx, "attempt to subtract with overflow"), 0)

\* resolve_transfer without the `receiver_balance > 0` test
MutResolveNoBalanceTest(ctx, sender_id, receiver_id, amount, ft_on_transfer_promise_result) ==
    IF ft_on_transfer_promise_result = NotReady THEN Return(abort(ctx), 0)
    ELSE
        LET unused_amount ==
                IF ft_on_transfer_promise_result.tag = "Successful" THEN
                    LET parsed == from_slice_U128(ft_on_transfer_promise_result.value)
                    IN  IF parsed # None THEN min(amount, unwrap_or(parsed, 0))
                        ELSE amount
                ELSE amount
            refund_amount == min(balance_of(ctx.storage, receiver_id), unused_amount)
        IN  IF unused_amount > 0 THEN
                LET c1 == transfer(ctx, receiver_id, sender_id, refund_amount, None)
                IN  IF Returned(c1) THEN Subtract(c1, amount, refund_amount)
                    ELSE Return(c1, 0)
            ELSE Subtract(ctx, amount, 0)

resolve_transfer(ctx, sender_id, receiver_id, amount, ft_on_transfer_promise_result) ==
    IF ft_on_transfer_promise_result = NotReady THEN Return(abort(ctx), 0)
    ELSE
        LET unused_amount ==
                IF ft_on_transfer_promise_result.tag = "Successful" THEN
                    LET parsed == from_slice_U128(ft_on_transfer_promise_result.value)
                    IN  IF parsed # None THEN min(amount, unwrap_or(parsed, 0))
                        ELSE amount
                ELSE amount
            receiver_balance == balance_of(ctx.storage, receiver_id)
            refund_amount == min(receiver_balance, unused_amount)
        IN  IF unused_amount > 0 /\ receiver_balance > 0 THEN
                LET c1 == transfer(ctx, receiver_id, sender_id, refund_amount, None)
                IN  IF Returned(c1) THEN Subtract(c1, amount, refund_amount)
                    ELSE Return(c1, 0)
            ELSE Subtract(ctx, amount, 0)

----------------------------------------------------------------------------
\* Invocations on the contract

NoAccount == "-"

\* The host commits the storage of an invocation that returned and discards
\* the writes of one that panicked.
Commit(result) == IF Returned(result) THEN result.storage ELSE storage

\* The record of an invocation: what was called, on which storage, and what
\* it did.
Invocation(op, a, b, amount, memo, result) ==
    [op |-> op, account |-> a, receiver |-> b, amount |-> amount,
     memo |-> memo, pre |-> storage,
     panic |-> result.panic, trace |-> result.trace]

Withdraw ==
    \E a \in Accounts, n \in Amounts :
        LET result == withdraw_unchecked(NewContext(storage), a, n)
        IN  /\ storage' = Commit(result)
            /\ last' = Invocation("withdraw", a, NoAccount, n, None, result)
            /\ UNCHANGED chains

Deposit ==
    \E a \in Accounts, n \in Amounts :
        LET result == deposit_unchecked(NewContext(storage), a, n)
        IN  /\ storage' = Commit(result)
            /\ last' = Invocation("deposit", a, NoAccount, n, None, result)
            /\ UNCHANGED chains

MoveBalance ==
    \E a \in Accounts, b \in Accounts, n \in Amounts :
        LET result == transfer_unchecked(NewContext(storage), a, b, n)
        IN  /\ storage' = Commit(result)
            /\ last' = Invocation("move_balance", a, b, n, None, result)
            /\ UNCHANGED chains

Transfer ==
    \E a \in Accounts, b \in Accounts, n \in Amounts, m \in Memos :
        LET result == transfer(NewContext(storage), a, b, n, m)
        IN  /\ storage' = Commit(result)
            /\ last' = Invocation("transfer", a, b, n, m, result)
            /\ UNCHANGED chains

Mint ==
    \E a \in Accounts, n \in Amounts, m \in Memos :
        LET result == mint(NewContext(storage), a, n, m)
        IN  /\ storage' = Commit(result)
            /\ last' = Invocation("mint", a, NoAccount, n, m, result)
            /\ UNCHANGED chains

Burn ==
    \E a \in Accounts, n \in Amounts, m \in Memos :
        LET result == burn(NewContext(storage), a, n, m)
        IN  /\ storage' = Commit(result)
            /\ last' = Invocation("burn", a, NoAccount, n, m, result)
            /\ UNCHANGED chains

\* The promise results a terminated ft_on_transfer can leave: a failure, the
\* JSON of a u128 (any declared unused amount), or bytes that are no u128.
Payloads == {U128(n) : n \in 0..U128Max} \cup {"null"}
Outcomes == {Failed} \cup {Successful(v) : v \in Payloads}

\* The host schedules the promise chains an invocation created once it has
\* returned; a panicked invocation schedules nothing.
Scheduled(result) ==
    IF Returned(result)
    THEN {[call |-> result.trace[i].call, then |-> result.trace[i].then,
           stage |-> "Initiated", result |-> NotReady] :
            i \in {j \in 1..Len(result.trace) : result.trace[j].kind = "promise"}}
    ELSE {}

\* ft_transfer_call.  One chain is in flight at a time.
TransferCall ==
    /\ chains = {}
    /\ \E a \in CallAccounts, b \in CallAccounts, n \in Amounts, m \in Memos,
          msg \in Msgs, gas \in GasAllowances :
        LET result == transfer_call(NewContext(storage), a, b, n, m, msg, gas)
        IN  /\ storage' = Commit(result)
            /\ chains' = chains \cup Scheduled(result)
            /\ last' = Invocation("transfer_call", a, b, n, m, result)
                            @@ [msg |-> msg, gas_allowance |-> gas]

\* The receiver's ft_on_transfer terminates, with any outcome.  It runs on
\* the receiver's contract: nothing of this contract changes.
OnTransferTerminates ==
    \E c \in chains, outcome \in Outcomes :
        /\ c.stage = "Initiated"
        /\ chains' = (chains \ {c})
                        \cup {[c EXCEPT !.stage = "RemoteNotified", !.result = outcome]}
        /\ UNCHANGED <<storage, last>>

\* The arguments of the callback as ft_resolve_transfer receives them.
ResolveInvocation(c, result) ==
    Invocation("resolve_transfer", c.then.args.sender_id, c.then.args.receiver_id,
               unwrap_or(from_slice_U128(c.then.args.amount), 0), None, result)
        @@ [promise_result |-> c.result, value |-> result.value, chain |-> c]

\* The host runs the callback of a chain whose ft_on_transfer has terminated.
ResolveTransfer ==
    \E c \in chains :
        /\ c.stage = "RemoteNotified"
        /\ LET result == resolve_transfer(NewContext(storage), c.then.args.sender_id,
                                          c.then.args.receiver_id,
                                          unwrap_or(from_slice_U128(c.then.args.amount), 0),
                                          c.result)
           IN  /\ storage' = Commit(result)
               /\ chains' = chains \ {c}
               /\ last' = ResolveInvocation(c, result)

\* Another invocation on the contract between the steps of a chain (a mint, or
\* a transfer by any account, the receiver spending its credit included).  Of
\* this invocation only the effect on the storage is kept.
Interleaved ==
    /\ \/ \E a \in Accounts, n \in Amounts :
             storage' = Commit(mint(NewContext(storage), a, n, None))
       \/ \E a \in Accounts, b \in Accounts, n \in Amounts :
             storage' = Commit(transfer(NewContext(storage), a, b, n, None))
    /\ last' = [op |-> "other"]
    /\ UNCHANGED chains

\* resolve_transfer applied to any arguments and any promise result,
\* PromiseResult::NotReady included.
ResolveTransferWith ==
    \E a \in CallAccounts, b \in CallAccounts, n \in Amounts,
       pr \in Outcomes \cup {NotReady} :
        LET result == resolve_transfer(NewContext(storage), a, b, n, pr)
        IN  /\ storage' = Commit(result)
            /\ last' = Invocation("resolve_transfer", a, b, n, None, result)
                            @@ [promise_result |-> pr, value |-> result.value]
            /\ UNCHANGED chains

\* The number of transfer calls that may be pending at once.
MaxPending == 2

\* Several chains may be in flight, two of the same call included: the host
\* tells them apart.
FreePromiseId == CHOOSE i \in 1..MaxPending : \A c \in chains : c.id # i

\* ft_transfer_call between distinct accounts while other chains are pending.
TransferCallAmongPending ==
    /\ Cardinality(chains) < MaxPending
    /\ \E a \in CallAccounts, n \in Amounts, msg \in Msgs :
       \E b \in CallAccounts \ {a} :
        LET gas == GAS_FOR_FT_TRANSFER_CALL
            result == transfer_call(NewContext(storage), a, b, n, None, msg, gas)
        IN  /\ storage' = Commit(result)
            /\ chains' = chains \cup {c @@ [id |-> FreePromiseId] : c \in Scheduled(result)}
            /\ last' = [op |-> "transfer_call", account |-> a, receiver |-> b,
                        amount |-> n, panic |-> result.panic]

\* mint, burn and transfer between distinct accounts, between the steps of
\* the pending chains.  Of these invocations only the effect on the storage
\* is kept.
InterleavedDistinct ==
    /\ \/ \E a \in Accounts, n \in Amounts :
             storage' = Commit(mint(NewContext(storage), a, n, None))
       \/ \E a \in Accounts, n \in Amounts :
             storage' = Commit(burn(NewContext(storage), a, n, None))
       \/ \E a \in Accounts, n \in Amounts : \E b \in Accounts \ {a} :
             storage' = Commit(transfer(NewContext(storage), a, b, n, None))
    /\ last' = [op |-> "other"]
    /\ UNCHANGED chains

EmptyStorage == [k \in StorageKeys |-> None]

Init ==
    /\ storage = EmptyStorage
    /\ chains = {}
    /\ last = [op |-> "new", account |-> NoAccount, receiver |-> NoAccount,
               amount |-> 0, memo |-> None, pre |-> EmptyStorage,
               panic |-> NoPanic, trace |-> <<>>]

Next == Withdraw \/ Deposit \/ MoveBalance \/ Transfer \/ Mint \/ Burn

Spec == Init /\ [][Next]_vars

\* The event-emitting operations alone.
NextWrappers == Mint \/ Burn \/ Transfer

SpecWrappers == Init /\ [][NextWrappers]_vars

\* The transfer-call protocol, interleaved with other invocations.
NextCall == TransferCall \/ OnTransferTerminates \/ ResolveTransfer \/ Interleaved

SpecCall == Init /\ [][NextCall]_vars

\* The transfer-call protocol on a host that delivers: a notification that was
\* started terminates (at the latest by exhausting its gas), and a callback
\* whose predecessor has terminated is run.
SpecCallFair ==
    SpecCall /\ WF_vars(OnTransferTerminates) /\ WF_vars(ResolveTransfer)

\* Several transfer calls pending at once, every operation between distinct
\* accounts.
NextPending ==
    TransferCallAmongPending \/ OnTransferTerminates \/ ResolveTransfer
        \/ InterleavedDistinct

SpecPending == Init /\ [][NextPending]_vars

\* resolve_transfer as a function of the ledger and its arguments.
NextResolve == Interleaved \/ ResolveTransferWith

SpecResolve == Init /\ [][NextResolve]_vars

----------------------------------------------------------------------------
\* Vocabulary of the properties

RECURSIVE SumOver(_, _)
SumOver(st, S) ==
    IF S = {} THEN 0
    ELSE LET a == CHOOSE x \in S : TRUE IN balance_of(st, a) + SumOver(st, S \ {a})

SumOfBalances(st) == SumOver(st, Accounts)

TraceWrites(tr) == SelectSeq(tr, LAMBDA e : e.kind = "write")
TraceEvents(tr) == SelectSeq(tr, LAMBDA e : e.kind = "emit")

BalancesUnchanged == \A a \in Accounts : balance_of(storage, a) = balance_of(last.pre, a)
SupplyUnchanged == total_supply(storage) = total_supply(last.pre)

\* The invocation wrote no slot, and the committed ledger is the one before it.
NoEffect == TraceWrites(last.trace) = <<>> /\ BalancesUnchanged /\ SupplyUnchanged

----------------------------------------------------------------------------
\* C1: in every state reachable by mint, burn and transfer calls (failed and
\* rolled-back calls included) total_supply() is the sum of balance_of(a) over
\* all accounts.
C1_TotalSupplyIsSumOfBalances == total_supply(storage) = SumOfBalances(storage)

\* C2: for distinct A and B with balance_of(A) >= n and balance_of(B) + n in
\* range, transfer(A, B, n) succeeds, takes exactly n from A, gives exactly n
\* to B and leaves the total supply and every other balance as they were.
C2_TransferConservation ==
    (/\ last.op = "transfer"
     /\ last.account # last.receiver
     /\ balance_of(last.pre, last.account) >= last.amount
     /\ balance_of(last.pre, last.receiver) + last.amount <= U128Max)
    => /\ last.panic = NoPanic
       /\ balance_of(storage, last.account)
            = balance_of(last.pre, last.account) - last.amount
       /\ balance_of(storage, last.receiver)
            = balance_of(last.pre, last.receiver) + last.amount
       /\ SupplyUnchanged
       /\ \A c \in Accounts \ {last.account, last.receiver} :
            balance_of(storage, c) = balance_of(last.pre, c)

C2_Witness ==
    /\ last.op = "transfer"
    /\ last.account # last.receiver
    /\ last.amount > 0
    /\ last.panic = NoPanic
    /\ balance_of(storage, last.receiver) = last.amount
    /\ C1_TotalSupplyIsSumOfBalances
    /\ \E c \in Accounts \ {last.account, last.receiver} : balance_of(storage, c) > 0

\* The balances after a withdraw of `amount` from `sender` followed by a
\* deposit of `amount` to `receiver`, the total supply left aside.
WithdrawThenDeposit(st, sender, receiver, amount) ==
    LET afterWithdraw == [st EXCEPT ![sender] = Some(balance_of(st, sender) - amount)]
    IN  [afterWithdraw EXCEPT
            ![receiver] = Some(balance_of(afterWithdraw, receiver) + amount)]

\* C3: move_balance(sender, receiver, amount) changes the balances exactly as
\* withdraw(sender, amount) followed by deposit(receiver, amount) would, the
\* total supply untouched, for every sender and receiver, sender = receiver
\* included: a transfer from an account to itself leaves its balance unchanged.
C3_MoveIsWithdrawThenDeposit ==
    (last.op = "move_balance" /\ last.panic = NoPanic)
    => /\ \A a \in Accounts :
            balance_of(storage, a)
              = balance_of(WithdrawThenDeposit(last.pre, last.account,
                                               last.receiver, last.amount), a)
       /\ SupplyUnchanged
       /\ (last.account = last.receiver => BalancesUnchanged)

\* C4: deposit(acc, amount) with balance_of(acc) + amount above the 128-bit
\* maximum fails with "Balance overflow" and changes no balance and not the
\* total supply.
C4_DepositOverflowGuard ==
    (/\ last.op = "deposit"
     /\ balance_of(last.pre, last.account) + last.amount > U128Max)
    => last.panic = "Balance overflow" /\ NoEffect

C4_Witness ==
    /\ last.op = "deposit"
    /\ balance_of(last.pre, last.account) + last.amount > U128Max
    /\ last.panic = "Balance overflow"

\* C5: withdraw(acc, amount) with amount > balance_of(acc) fails with "Balance
\* underflow" and changes no balance and not the total supply.
C5_WithdrawUnderflowGuard ==
    (/\ last.op = "withdraw"
     /\ last.amount > balance_of(last.pre, last.account))
    => last.panic = "Balance underflow" /\ NoEffect

C5_Witness ==
    /\ last.op = "withdraw"
    /\ last.amount > balance_of(last.pre, last.account)
    /\ balance_of(last.pre, last.account) > 0
    /\ last.panic = "Balance underflow"

MoveOps == {"move_balance", "transfer"}

SenderUnderflows == balance_of(last.pre, last.account) < last.amount
ReceiverOverflows == balance_of(last.pre, last.receiver) + last.amount > U128Max

\* Nothing was written, no balance and not the total supply changed, and no
\* event was emitted.
FailedCleanly == NoEffect /\ TraceEvents(last.trace) = <<>>

\* C6 as stated: move_balance fails with a sender-underflow error when
\* balance_of(sender) < amount and with a receiver-overflow error when
\* balance_of(receiver) + amount overflows; in both cases no balance and not
\* the total supply changes and no transfer event is emitted.
C6_MoveBalanceFailures ==
    last.op \in MoveOps
    => /\ SenderUnderflows
            => last.panic = "Sender balance underflow" /\ FailedCleanly
       /\ ReceiverOverflows
            => last.panic = "Receiver balance overflow" /\ FailedCleanly

\* C6 (amended): move_balance fails with a sender-underflow error when
\* balance_of(sender) < amount, and with a receiver-overflow error when the
\* sender's balance suffices and balance_of(receiver) + amount overflows (the
\* sender is checked first); in both cases no balance and not the total
\* supply changes and no transfer event is emitted.
C6_MoveBalanceFailuresInOrder ==
    last.op \in MoveOps
    => /\ SenderUnderflows
            => last.panic = "Sender balance underflow" /\ FailedCleanly
       /\ (~SenderUnderflows /\ ReceiverOverflows)
            => last.panic = "Receiver balance overflow" /\ FailedCleanly

C6_Witness ==
    /\ last.op = "transfer"
    /\ ~SenderUnderflows
    /\ ReceiverOverflows
    /\ last.panic = "Receiver balance overflow"

\* C7: deposit(acc, 0) and withdraw(acc, 0) succeed in every state, also for
\* an account with no stored balance, write no slot, emit no event and change
\* no balance and not the total supply.
C7_ZeroAmountPrimitivesNoOp ==
    (last.op \in {"deposit", "withdraw"} /\ last.amount = 0)
    => last.panic = NoPanic /\ last.trace = <<>> /\ storage = last.pre

C7_Witness ==
    /\ last.op = "withdraw"
    /\ last.amount = 0
    /\ last.pre[last.account] = None
    /\ last.panic = NoPanic

\* C8: mint(acc, 0, memo), burn(acc, 0, memo) and transfer(A, B, 0, memo)
\* write no slot and emit no event.
C8_ZeroAmountWrappersNoOp ==
    (last.op \in {"mint", "burn", "transfer"} /\ last.amount = 0)
    => last.trace = <<>>

WriteOf(key, value) == [kind |-> "write", key |-> key, value |-> value]

\* The ledger change of the last invocation is written before position i.
ChangeWrittenBefore(i) ==
    LET written(key, value) == \E j \in 1..(i - 1) : last.trace[j] = WriteOf(key, value)
        n == last.amount
    IN  CASE last.op = "mint" ->
                /\ written(last.account, balance_of(last.pre, last.account) + n)
                /\ written(TotalSupplyKey, total_supply(last.pre) + n)
          [] last.op = "burn" ->
                /\ written(last.account, balance_of(last.pre, last.account) - n)
                /\ written(TotalSupplyKey, total_supply(last.pre) - n)
          [] last.op = "transfer" ->
                /\ written(last.account, balance_of(last.pre, last.account) - n)
                /\ written(last.receiver, balance_of(last.pre, last.receiver) + n)

EventNameOf(op) ==
    CASE op = "mint" -> "ft_mint" [] op = "burn" -> "ft_burn" [] op = "transfer" -> "ft_transfer"

\* C9: in mint, burn and transfer every emitted event comes after the ledger
\* change of the same invocation has succeeded (all its writes precede the
\* event and the invocation returns), and an invocation whose mutation fails
\* emits no event.
C9_EventAfterMutation ==
    last.op \in {"mint", "burn", "transfer"}
    => /\ last.panic # NoPanic => TraceEvents(last.trace) = <<>>
       /\ \A i \in 1..Len(last.trace) :
            last.trace[i].kind = "emit"
            => /\ last.panic = NoPanic
               /\ last.trace[i].event.event = EventNameOf(last.op)
               /\ \A j \in 1..Len(last.trace) : last.trace[j].kind = "write" => j < i
               /\ last.amount > 0 => ChangeWrittenBefore(i)

C9_Witness ==
    /\ last.op = "burn"
    /\ last.amount > 0
    /\ last.panic = NoPanic
    /\ Len(last.trace) = 3
    /\ last.trace[3].kind = "emit"

\* C10: for n > 0 causing no overflow, mint(a, n, memo) adds n to balance_of(a)
\* and to total_supply() and emits exactly one mint event carrying a, n (as a
\* decimal string) and memo; on the empty ledger mint(alice, n) gives
\* balance_of(alice) = n and total_supply() = n.
C10_MintEffect ==
    (/\ last.op = "mint"
     /\ last.amount > 0
     /\ balance_of(last.pre, last.account) + last.amount <= U128Max
     /\ total_supply(last.pre) + last.amount <= U128Max)
    => /\ last.panic = NoPanic
       /\ balance_of(storage, last.account)
            = balance_of(last.pre, last.account) + last.amount
       /\ total_supply(storage) = total_supply(last.pre) + last.amount
       /\ TraceEvents(last.trace)
            = << [kind |-> "emit",
                  event |-> [event |-> "ft_mint",
                             data |-> << [owner_id |-> last.account,
                                          amount |-> ToString(last.amount),
                                          memo |-> last.memo] >>]] >>
       /\ last.pre = EmptyStorage
            => /\ balance_of(storage, last.account) = last.amount
               /\ total_supply(storage) = last.amount

C10_Witness ==
    /\ last.op = "mint"
    /\ last.account = "alice"
    /\ last.amount = U128Max
    /\ last.memo = None
    /\ last.pre = EmptyStorage
    /\ balance_of(storage, "alice") = U128Max
    /\ total_supply(storage) = U128Max

----------------------------------------------------------------------------
\* The transfer-call protocol

TracePromises(tr) == SelectSeq(tr, LAMBDA e : e.kind = "promise")

\* C11: transfer_call with a gas allowance below GAS_FOR_FT_TRANSFER_CALL
\* fails before any state mutation: no slot is written, the balances are
\* unchanged, no event is emitted and neither the notification nor the
\* resolution callback is scheduled.
C11_InsufficientGasFailsFirst ==
    (last.op = "transfer_call" /\ last.gas_allowance < GAS_FOR_FT_TRANSFER_CALL)
    => /\ last.panic = MORE_GAS_FAIL_MESSAGE
       /\ last.trace = <<>>
       /\ storage = last.pre
       /\ chains = {}

C11_Witness ==
    /\ last.op = "transfer_call"
    /\ last.gas_allowance = GAS_FOR_FT_TRANSFER_CALL - 1
    /\ last.account # last.receiver
    /\ last.amount > 0
    /\ balance_of(storage, last.account) >= last.amount
    /\ last.panic = MORE_GAS_FAIL_MESSAGE

\* The chain a transfer call starts: ft_on_transfer on the receiver, then
\* ft_resolve_transfer on this contract with the call's sender, receiver and
\* amount.
ResolverArgsOf(sender, receiver, amount) ==
    [sender_id |-> sender, receiver_id |-> receiver, amount |-> ToString(amount)]

\* C12: once transfer_call has returned, and until its resolution runs, the
\* ledger holds the full transfer: for sender # receiver the sender's balance
\* is down by amount and the receiver's up by amount, whatever the remote
\* notification does.
C12_OptimisticCredit ==
    (last.op = "transfer_call" /\ last.panic = NoPanic /\ last.account # last.receiver)
    => /\ \E c \in chains :
            c.then.args = ResolverArgsOf(last.account, last.receiver, last.amount)
       /\ balance_of(storage, last.account)
            = balance_of(last.pre, last.account) - last.amount
       /\ balance_of(storage, last.receiver)
            = balance_of(last.pre, last.receiver) + last.amount

C12_Witness ==
    /\ last.op = "transfer_call"
    /\ last.panic = NoPanic
    /\ last.account # last.receiver
    /\ last.amount > 0
    /\ \E c \in chains : c.stage = "RemoteNotified" /\ c.result = Failed

\* The refund resolve_transfer makes goes from the receiver of the transfer
\* call (last.receiver) back to its sender (last.account).
ReceiverBalanceAtResolution == balance_of(last.pre, last.receiver)

\* The last invocation returned having moved exactly q from the receiver to the
\* sender: for q = 0 it did nothing at all; for q > 0 it made one transfer of q
\* from receiver to sender, announced by one ft_transfer event, and (for
\* distinct accounts) the two balances changed by q, nothing else changed.
RefundMoved(q) ==
    /\ last.panic = NoPanic
    /\ q = 0 => last.trace = <<>> /\ storage = last.pre
    /\ q > 0 =>
        /\ TraceEvents(last.trace)
             = << [kind |-> "emit",
                   event |-> [event |-> "ft_transfer",
                              data |-> << [old_owner_id |-> last.receiver,
                                           new_owner_id |-> last.account,
                                           amount |-> ToString(q),
                                           memo |-> None] >>]] >>
        /\ last.account # last.receiver =>
             /\ balance_of(storage, last.receiver) = ReceiverBalanceAtResolution - q
             /\ balance_of(storage, last.account) = balance_of(last.pre, last.account) + q
        /\ \A c \in Accounts \ {last.account, last.receiver} :
             balance_of(storage, c) = balance_of(last.pre, c)
        /\ SupplyUnchanged

\* The promise result carries no valid amount: the notification failed, or
\* succeeded with a payload that is no u128.
NoValidPayload(pr) ==
    \/ pr = Failed
    \/ pr.tag = "Successful" /\ \A n \in 0..U128Max : pr.value # ToString(n)

\* The promise result declares the unused amount u.
Declares(pr, u) == pr.tag = "Successful" /\ pr.value = ToString(u)

\* C13: when the notification failed, or succeeded with a payload that is no
\* valid u128, resolve_transfer treats the whole amount as unused: it refunds
\* min(amount, balance_of(receiver)) from receiver to sender and returns amount
\* minus that refund.
C13_FailedOrMalformedRefundsAll ==
    (last.op = "resolve_transfer" /\ NoValidPayload(last.promise_result))
    => LET refund == IF last.amount <= ReceiverBalanceAtResolution
                     THEN last.amount ELSE ReceiverBalanceAtResolution
       IN  /\ RefundMoved(refund)
           /\ last.value = {last.amount - refund}

\* C14: when the notification succeeded declaring the unused amount u, the
\* refund moved from receiver to sender is min(amount, u, balance_of(receiver)),
\* which never exceeds amount, for every u, u > amount included.
C14_DeclaredUnusedIsClamped ==
    \A u \in 0..U128Max :
        (last.op = "resolve_transfer" /\ Declares(last.promise_result, u))
        => LET m1 == IF last.amount <= u THEN last.amount ELSE u
               refund == IF m1 <= ReceiverBalanceAtResolution
                         THEN m1 ELSE ReceiverBalanceAtResolution
           IN  refund <= last.amount /\ RefundMoved(refund)

\* C15: when the notification succeeded declaring 0 unused, resolve_transfer
\* returns the full amount, makes no refund transfer, emits no event and leaves
\* every balance and the total supply unchanged.
C15_NothingUnusedKeepsAll ==
    (last.op = "resolve_transfer" /\ Declares(last.promise_result, 0))
    => /\ last.panic = NoPanic
       /\ last.value = {last.amount}
       /\ last.trace = <<>>
       /\ storage = last.pre

C15_Witness ==
    /\ last.op = "resolve_transfer"
    /\ Declares(last.promise_result, 0)
    /\ last.amount > 0
    /\ last.account # last.receiver
    /\ ReceiverBalanceAtResolution >= last.amount
    /\ last.value = {last.amount}

\* The unused amount of the last resolution is positive: the whole amount
\* when there is no valid payload, min(amount, u) when u is declared.
UnusedIsPositive ==
    /\ last.amount > 0
    /\ ~Declares(last.promise_result, 0)

\* C16: if the unused amount is positive but the receiver's balance at
\* resolution time is 0, resolve_transfer is no error: it makes no refund,
\* emits no event, changes no balance and returns the full amount.
C16_EmptyReceiverNoRefund ==
    (/\ last.op = "resolve_transfer"
     /\ last.promise_result # NotReady
     /\ UnusedIsPositive
     /\ ReceiverBalanceAtResolution = 0)
    => /\ last.panic = NoPanic
       /\ last.value = {last.amount}
       /\ last.trace = <<>>
       /\ storage = last.pre

\* The receiver was credited by the transfer call and has nothing left when
\* the resolution runs.
C16_Witness ==
    /\ last.op = "resolve_transfer"
    /\ last.promise_result = Failed
    /\ last.amount > 0
    /\ last.account # last.receiver
    /\ ReceiverBalanceAtResolution = 0
    /\ last.value = {last.amount}

\* The quantity the last resolution moved from receiver to sender: the amount
\* of the transfer it made, 0 if it made none.
RefundedBy(q) ==
    IF q = 0 THEN last.trace = <<>>
    ELSE /\ Len(last.trace) = 3
         /\ last.trace[3].kind = "emit"
         /\ last.trace[3].event.data[1].old_owner_id = last.receiver
         /\ last.trace[3].event.data[1].new_owner_id = last.account
         /\ last.trace[3].event.data[1].amount = ToString(q)
         /\ last.account # last.receiver =>
              /\ balance_of(storage, last.receiver) = ReceiverBalanceAtResolution - q
              /\ balance_of(storage, last.account)
                   = balance_of(last.pre, last.account) + q

\* C17: resolve_transfer returns amount - refunded_amount, refunded_amount
\* being exactly the quantity this resolution moved from receiver to sender;
\* the result is between 0 and amount and the subtraction never underflows.
C17_ReturnsAmountKept ==
    last.op = "resolve_transfer"
    => /\ last.panic # "attempt to subtract with overflow"
       /\ last.panic = NoPanic
            => \E kept \in 0..last.amount :
                 /\ last.value = {kept}
                 /\ RefundedBy(last.amount - kept)

C17_Witness ==
    /\ last.op = "resolve_transfer"
    /\ last.account # last.receiver
    /\ last.amount = 2
    /\ last.value = {1}
    /\ balance_of(storage, last.account) = balance_of(last.pre, last.account) + 1

\* C18: if the promise result read by resolve_transfer is NotReady, the
\* invocation aborts: no balance and not the total supply changes, nothing is
\* written and no event is emitted.
C18_NotReadyAborts ==
    (last.op = "resolve_transfer" /\ last.promise_result = NotReady)
    => /\ last.panic = "abort"
       /\ last.value = None
       /\ last.trace = <<>>
       /\ storage = last.pre

C18_Witness ==
    /\ last.op = "resolve_transfer"
    /\ last.promise_result = NotReady
    /\ last.amount > 0
    /\ ReceiverBalanceAtResolution > 0
    /\ last.panic = "abort"

\* C19: in every reachable ledger state and for every outcome of the
\* notification (failed, or succeeded with any payload) resolve_transfer
\* completes and reports an amount kept; its refund transfer never aborts with
\* a sender-underflow or receiver-overflow error.
C19_ResolutionAlwaysCompletes ==
    (last.op = "resolve_transfer" /\ last.promise_result # NotReady)
    => last.panic = NoPanic /\ last.value # None

\* The chain a returned transfer_call, recorded as l, hands to the host.
ChainInitiatedBy(l) ==
    [call |-> [account |-> l.receiver, method |-> "ft_on_transfer",
               gas |-> l.gas_allowance - GAS_FOR_FT_TRANSFER_CALL,
               args |-> [sender_id |-> l.account, amount |-> ToString(l.amount),
                         msg |-> l.msg]],
     then |-> [account |-> CurrentAccount, method |-> "ft_resolve_transfer",
               gas |-> GAS_FOR_RESOLVE_TRANSFER,
               args |-> ResolverArgsOf(l.account, l.receiver, l.amount)],
     stage |-> "Initiated", result |-> NotReady]

\* A transfer_call that returned hands over exactly its own chain; one that
\* failed hands over nothing.
InitiationStep ==
    (last'.op = "transfer_call" /\ last' # last)
    => IF last'.panic = NoPanic
       THEN /\ Len(TracePromises(last'.trace)) = 1
            /\ chains' \ chains = {ChainInitiatedBy(last')}
            /\ chains \ chains' = {}
       ELSE /\ TracePromises(last'.trace) = <<>>
            /\ chains' = chains

\* A chain leaves the stage Initiated only when its notification terminates,
\* with one outcome, and keeps its callback.
NotificationStep ==
    \A c \in chains \ chains' :
        c.stage = "Initiated"
        => /\ \E outcome \in Outcomes :
                [c EXCEPT !.stage = "RemoteNotified", !.result = outcome]
                    \in chains' \ chains
           /\ UNCHANGED <<storage, last>>

\* A chain ends only by one invocation of resolve_transfer, after its
\* notification terminated, with the chain's arguments and outcome; and
\* resolve_transfer is invoked only so.
ResolutionStep ==
    /\ \A c \in chains \ chains' :
            c.stage # "Initiated"
            => /\ c.stage = "RemoteNotified"
               /\ c.result \in Outcomes
               /\ last'.op = "resolve_transfer"
               /\ last'.chain = c
    /\ (last'.op = "resolve_transfer" /\ last' # last)
       => /\ last'.chain \in chains \ chains'
          /\ chains' = chains \ {last'.chain}
          /\ last'.chain.stage = "RemoteNotified"
          /\ last'.promise_result = last'.chain.result
          /\ last'.promise_result \in Outcomes
          /\ ResolverArgsOf(last'.account, last'.receiver, last'.amount)
                = last'.chain.then.args

\* C20: a transfer_call that returns schedules one chain, ft_on_transfer on
\* the receiver then ft_resolve_transfer with the call's sender, receiver and
\* amount; resolve_transfer is invoked for a chain only after the chain's
\* notification has terminated with success or failure, with those arguments,
\* and that invocation ends the chain, so it is not invoked for it again; a
\* transfer_call that fails schedules nothing.
C20_ResolvedOnceAfterNotification ==
    [][InitiationStep /\ NotificationStep /\ ResolutionStep]_vars

C20_Witness ==
    /\ last.op = "resolve_transfer"
    /\ last.chain.stage = "RemoteNotified"
    /\ last.chain.result = Failed
    /\ last.account # last.receiver
    /\ last.amount > 0
    /\ last.panic = NoPanic
    /\ chains = {}

----------------------------------------------------------------------------
\* The documentation of the receiver and resolver interfaces

\* C21: the value v returned by the receiver's ft_on_transfer is the number of
\* tokens used, those the receiver keeps, and the difference amount - v goes
\* back to the sender: with v <= amount and a receiver that still holds the
\* amount, the resolution refunds amount - v and the receiver keeps v.
C21_OnTransferValueIsUsed ==
    \A v \in 0..U128Max :
        (/\ last.op = "resolve_transfer"
         /\ Declares(last.promise_result, v)
         /\ v <= last.amount
         /\ ReceiverBalanceAtResolution >= last.amount
         /\ last.account # last.receiver
         /\ last.panic = NoPanic)
        => RefundedBy(last.amount - v)

\* C22: ft_resolve_transfer returns the amount of tokens refunded to the
\* original sender.
C22_ResolveReturnsRefunded ==
    (/\ last.op = "resolve_transfer"
     /\ last.account # last.receiver
     /\ last.panic = NoPanic)
    => \E refunded \in 0..last.amount :
         /\ RefundedBy(refunded)
         /\ last.value = {refunded}

----------------------------------------------------------------------------
\* Order of checks and writes in the primitives

Primitives == {"deposit", "withdraw", "move_balance"}

\* C23: in deposit, withdraw and move_balance every arithmetic check comes
\* before any storage write: no invocation writes a balance or the total-supply
\* slot and then fails an overflow or underflow check.
C23_ChecksBeforeWrites ==
    (last.op \in Primitives /\ last.panic # NoPanic)
    => TraceWrites(last.trace) = <<>>

\* C24: deposit(acc, amount) with balance_of(acc) + amount in range and
\* total_supply() + amount above the 128-bit maximum fails with "Total supply
\* overflow", and balance_of(acc) and total_supply(), like every other slot,
\* are after the failed call what they were before it.
C24_TotalSupplyOverflowGuard ==
    (/\ last.op = "deposit"
     /\ balance_of(last.pre, last.account) + last.amount <= U128Max
     /\ total_supply(last.pre) + last.amount > U128Max)
    => /\ last.panic = "Total supply overflow"
       /\ balance_of(storage, last.account) = balance_of(last.pre, last.account)
       /\ SupplyUnchanged
       /\ storage = last.pre

C24_Witness ==
    /\ last.op = "deposit"
    /\ last.amount > 0
    /\ balance_of(last.pre, last.account) + last.amount <= U128Max
    /\ total_supply(last.pre) + last.amount > U128Max
    /\ total_supply(last.pre) = SumOfBalances(last.pre)
    /\ last.panic = "Total supply overflow"

----------------------------------------------------------------------------
\* The gas of the notification

\* The gas the chain started by the last transfer_call gives to ft_on_transfer.
NotificationGas == TracePromises(last.trace)[1].call.gas

\* C25: for every gas allowance >= GAS_FOR_FT_TRANSFER_CALL the gas
\* transfer_call computes for the notification, the allowance minus
\* GAS_FOR_FT_TRANSFER_CALL, is non-negative (0 when the allowance equals the
\* minimum): once the minimum-gas check has passed the call never fails with
\* "Prepaid gas overflow".
C25_NotificationGasNonNegative ==
    (last.op = "transfer_call" /\ last.gas_allowance >= GAS_FOR_FT_TRANSFER_CALL)
    => /\ last.panic # "Prepaid gas overflow"
       /\ last.panic # MORE_GAS_FAIL_MESSAGE
       /\ last.panic = NoPanic
            => /\ Len(TracePromises(last.trace)) = 1
               /\ NotificationGas = last.gas_allowance - GAS_FOR_FT_TRANSFER_CALL
               /\ NotificationGas >= 0
               /\ last.gas_allowance = GAS_FOR_FT_TRANSFER_CALL
                    => NotificationGas = 0

C25_Witness ==
    /\ last.op = "transfer_call"
    /\ last.gas_allowance = GAS_FOR_FT_TRANSFER_CALL
    /\ last.amount > 0
    /\ last.panic = NoPanic
    /\ NotificationGas = 0

----------------------------------------------------------------------------
\* The documented panics of deposit_unchecked

\* C26: deposit_unchecked panics if the balance of account_id plus amount is
\* >= u128::MAX, or if the total supply plus amount is >= u128::MAX: a deposit
\* that would bring the balance to exactly u128::MAX is rejected.
C26_DepositRejectsReachingMax ==
    (/\ last.op = "deposit"
     /\ \/ balance_of(last.pre, last.account) + last.amount >= U128Max
        \/ total_supply(last.pre) + last.amount >= U128Max)
    => last.panic # NoPanic

----------------------------------------------------------------------------
\* Progress of the call chain

\* The chain in flight is in the stage.
ChainIn(stage) == \E c \in chains : c.stage = stage

\* The last invocation is the resolution of the chain that was in flight, and
\* it completed.
ResolvedCall ==
    /\ last.op = "resolve_transfer"
    /\ last.chain \notin chains
    /\ last.panic = NoPanic
    /\ last.value # None

\* The progress of the chain as a temporal formula, for SpecCallFair.
ChainEventuallyResolved ==
    /\ ChainIn("Initiated") ~> ChainIn("RemoteNotified")
    /\ ChainIn("RemoteNotified") ~> ResolvedCall

\* C27: on a host that delivers callbacks, every transfer call that was
\* initiated is followed by the termination of its notification (Initiated ->
\* RemoteNotified) and then by the completion of its resolve_transfer
\* (RemoteNotified -> Resolved), whatever other invocations are interleaved:
\* the chain leaves Initiated only into RemoteNotified, and RemoteNotified only
\* by its resolve_transfer completing.
C27_ChainStepsToResolved ==
    [][/\ (ChainIn("Initiated") /\ ~ChainIn("Initiated")')
            => ChainIn("RemoteNotified")'
       /\ (ChainIn("RemoteNotified") /\ ~ChainIn("RemoteNotified")')
            => ResolvedCall']_vars

----------------------------------------------------------------------------
\* Balances and the total supply

\* C28: in every reachable state balance_of(a) <= total_supply() for every
\* account a, so that a burn (withdraw) whose balance check passes never fails
\* with "Total supply underflow".
C28_BalanceWithinSupply ==
    /\ \A a \in Accounts : balance_of(storage, a) <= total_supply(storage)
    /\ last.op = "burn" => last.panic # "Total supply underflow"

\* C29: with every operation between distinct accounts, total_supply() is the
\* sum of all balances in every state between invocations, under every
\* interleaving of mint, burn, transfer, several pending transfer calls (to
\* the same receiver included), any outcome of their notifications and their
\* resolve_transfer callbacks.
C29_SupplyIsSumAmongPending == total_supply(storage) = SumOfBalances(storage)

\* A resolution has made its refund while another call to the same receiver
\* is still pending.
C29_Witness ==
    /\ last.op = "resolve_transfer"
    /\ last.panic = NoPanic
    /\ TraceWrites(last.trace) # <<>>
    /\ \E c \in chains :
        /\ c.then.args.receiver_id = last.receiver
        /\ c.id # last.chain.id
    /\ total_supply(storage) > 0

====
